---- MODULE Spec2Model ----
(***************************************************************************)
(* Model of the CAPM trading agent, src/algorithmic-trading-capm-bot.py.   *)
(*                                                                         *)
(* The agent is a set of callbacks driven by the fmclient runtime          *)
(* (initialised, received_session_info, received_holdings,                 *)
(* received_orders, order_accepted, order_rejected) plus pre_start_tasks,  *)
(* which re-arms itself with threading.Timer and therefore runs on a       *)
(* thread of its own.  Callbacks run one at a time on the runtime thread   *)
(* (pcMain); the timer thread (pcTimer) interleaves with them between the  *)
(* statements that read or write the shared flags.                         *)
(*                                                                         *)
(* Money is in cents as in the source.  Scores are floating point in the   *)
(* source; here every score is the exact rational value multiplied by      *)
(* 10^7 * n^2 (n = _num_states), so that scores are integers and           *)
(* comparisons between scores are exact.                                   *)
(*                                                                         *)
(* received_holdings is written at module level in the source (line 675)   *)
(* but takes self and is the holdings callback of the agent; it is         *)
(* modelled as that callback.  IDLE_CHECK_TIME (line 645) is the period    *)
(* of the timer; its value does not matter here, a tick may come at any    *)
(* time.                                                                   *)
(***************************************************************************)
EXTENDS Integers, Sequences, FiniteSets, TLC

VARIABLES
    \* ---- runtime (fmclient) state read by the agent
    now,                 \* time.time(), whole seconds
    markets,             \* self.markets: market id -> [item, description]
    book,                \* Order.current(), in iteration order
    snap,                \* self.holdings (NoSnap before the first update)
    \* ---- CAPMBot fields (lines 38-82)
    payoffs, market_ids, num_states, cash, current_holdings, current_units_available,
    current_performance, variances, covariances, best_bid, best_ask,
    processed_list, combination, session_open, waiting_for_server,
    waiting_for_mm, list_used_up, time_start, time_last_order_sent,
    mm_condition_1, mm_condition_2,
    \* ---- control
    pcMain,              \* position of the runtime thread
    pcTimer,             \* position of the timer thread
    \* ---- observation (not program state)
    last,                \* name of the handler that took the last step
    trace,               \* what the last call of received_orders did
    outbox,              \* orders handed to self.send_order by the last step
    unconfirmed          \* "sent": a submitted combination has had no confirmation;
                         \* "reset": the same, and the timer has cleared the flag since

vars == << now, markets, book, snap, payoffs, market_ids, num_states, cash,
           current_holdings, current_units_available, current_performance,
           variances, covariances, best_bid, best_ask, processed_list,
           combination, session_open, waiting_for_server, waiting_for_mm,
           list_used_up, time_start, time_last_order_sent, mm_condition_1,
           mm_condition_2, pcMain, pcTimer, last, trace, outbox, unconfirmed >>

-----------------------------------------------------------------------------
(* Bounds of the model *)

MaxTime == 2             \* the clock runs from 1 to MaxTime
MaxBook == 1             \* longest order book delivered by the market
MaxSearchBook == 3       \* longest order book of the search scenario
MaxStates == 3           \* longest payoff sequence of the start-up scenario

-----------------------------------------------------------------------------
(* Configuration *)

risk_penalty == 7        \* risk_penalty = 0.007, in thousandths
session_time == 20       \* session_time = 20

\* period of the timer of pre_start_tasks (line 645), in seconds; the file
\* leaves the global to be set by whoever runs the agent
IDLE_CHECK_TIME == 1

\* market metadata of the first market (lines 433-436), delivered by the runtime
price_tick == 100
min_price == 0
max_price == 400

\* self.markets of the running agent: two securities with two states each
MarketsConfig ==
    (1 :> [item |-> "A", description |-> <<0, 400>>]) @@
    (2 :> [item |-> "B", description |-> <<400, 0>>])

EmptyDict == [k \in {} |-> 0]
NoSnap == [none |-> TRUE]

\* dict[k] = v
Put(d, k, v) == [x \in (DOMAIN d) \cup {k} |-> IF x = k THEN v ELSE d[x]]

\* for k, v in src.items(): d[k] = v
Update(d, src) ==
    [x \in (DOMAIN d) \cup (DOMAIN src) |-> IF x \in DOMAIN src THEN src[x] ELSE d[x]]

\* Op(v), with v computed once
Bind(v, Op(_)) == CHOOSE r \in {Op(x) : x \in {v}} : TRUE

RECURSIVE SumSeq(_)
SumSeq(s) == IF s = <<>> THEN 0 ELSE Head(s) + SumSeq(Tail(s))

RECURSIVE SortedSeq(_)
SortedSeq(S) ==
    IF S = {} THEN <<>>
    ELSE LET m == CHOOSE x \in S : \A y \in S : x <= y
         IN  <<m>> \o SortedSeq(S \ {m})

-----------------------------------------------------------------------------
(* Risk model, lines 104-186.  Variances and covariances are stored          *)
(* multiplied by 10^4 * n^2.                                                  *)

\* _calculate_variance: ((1/n) * sum(p^2) - (1/n^2) * sum(p)^2) / 10000
calculate_variance(payoff, n) ==
    n * SumSeq([i \in DOMAIN payoff |-> payoff[i] * payoff[i]])
      - SumSeq(payoff) * SumSeq(payoff)

\* _expected_return: sum(state * (1/n)), multiplied by n
expected_return(payoff) == SumSeq(payoff)

\* _calculate_covariance: ((1/n) * sum(p1[s]*p2[s] for s in range(n)) - er1*er2) / 10000
calculate_covariance(payoff1, payoff2, n) ==
    n * SumSeq([s \in 1..n |-> payoff1[s] * payoff2[s]])
      - expected_return(payoff1) * expected_return(payoff2)

\* _make_variance
make_variance(mk, pay, n) ==
    [m \in DOMAIN mk |-> calculate_variance(pay[mk[m].item], n)]

\* _make_covariance: one entry per sorted pair of distinct held markets;
\* entries already stored are kept
make_covariance(cov, hold, mk, pay, n) ==
    LET pairs == {p \in (DOMAIN hold) \X (DOMAIN hold) : p[1] < p[2]}
    IN  [p \in (DOMAIN cov) \cup pairs |->
            IF p \in pairs
            THEN calculate_covariance(pay[mk[p[1]].item], pay[mk[p[2]].item], n)
            ELSE cov[p]]

\* _payoff_variance_covariance
payoff_variance_covariance(holding, var, cov) ==
    LET ms == SortedSeq(DOMAIN holding)
        ps == SortedSeq({p[1] * 1000 + p[2] : p \in DOMAIN cov})
    IN  SumSeq([i \in DOMAIN ms |-> holding[ms[i]] * holding[ms[i]] * var[ms[i]]])
      + SumSeq([i \in DOMAIN ps |->
                  LET a == ps[i] \div 1000
                      b == ps[i] % 1000
                  IN  2 * holding[a] * holding[b] * cov[<<a, b>>]])

\* _calculate_performance, multiplied by 10^7 * n^2:
\*   in_dollar(cash) + sum(in_dollar(er) * holdings) - b * payoff_variance
calculate_performance(c, holdings, own, var, cov, mk, pay, n) ==
    LET ms == SortedSeq(DOMAIN own)
    IN  100000 * n * n * c
      + SumSeq([i \in DOMAIN ms |->
                  100000 * n * expected_return(pay[mk[ms[i]].item]) * holdings[ms[i]]])
      - risk_penalty * payoff_variance_covariance(holdings, var, cov)

-----------------------------------------------------------------------------
(* Holdings, lines 665-673 *)

\* _current_holdings_info: copy units and units_available of every asset
holdings_info_units(hold, s) == Update(hold, s.units)
holdings_info_available(av, s) == Update(av, s.units_available)

-----------------------------------------------------------------------------
(* Orders.  A record [fm_id, market, side, price, units, mine, pending,      *)
(* placed]; fm_id is the order's own id, market the fm_id of its market,     *)
(* placed the time at which the order entered the book.                      *)

unit_copy(o) == [o EXCEPT !.units = 1]

\* one iteration of the loop of lines 342-362 (own = FALSE) and of the loop
\* of lines 409-431 (own = TRUE, which has no "not order.mine" test).  The
\* dictionaries are keyed by market id, the membership test and the price
\* comparison use the order's id, as written.
bid_ask_step(d, o, own) ==
    IF o.side = "BUY" /\ (own \/ ~o.mine)
    THEN IF o.fm_id \notin DOMAIN d.bid
         THEN [d EXCEPT !.bid = Put(d.bid, o.market, unit_copy(o))]
         ELSE IF o.price > d.bid[o.fm_id].price
              THEN [d EXCEPT !.bid = Put(d.bid, o.market, unit_copy(o))]
              ELSE d
    ELSE IF o.side = "SELL" /\ (own \/ ~o.mine)
    THEN IF o.fm_id \notin DOMAIN d.ask
         THEN [d EXCEPT !.ask = Put(d.ask, o.market, unit_copy(o))]
         ELSE IF o.price < d.ask[o.fm_id].price
              THEN [d EXCEPT !.ask = Put(d.ask, o.market, unit_copy(o))]
              ELSE d
    ELSE d

RECURSIVE bid_ask_fold(_, _, _)
bid_ask_fold(bk, d, own) ==
    IF bk = <<>> THEN d
    ELSE bid_ask_fold(Tail(bk), bid_ask_step(d, Head(bk), own), own)

\* _get_bid_ask_info: the two dictionaries after the loop over Order.current()
get_bid_ask_info(bk) ==
    bid_ask_fold(bk, [bid |-> EmptyDict, ask |-> EmptyDict], FALSE)

\* _bid_ask_info_dict_to_list: the entries of each dictionary sorted by key
bid_ask_info_dict_to_list(bk) ==
    LET d == get_bid_ask_info(bk)
        ka == SortedSeq(DOMAIN d.ask)
        kb == SortedSeq(DOMAIN d.bid)
    IN  [ask |-> [i \in DOMAIN ka |-> d.ask[ka[i]]],
         bid |-> [i \in DOMAIN kb |-> d.bid[kb[i]]]]

-----------------------------------------------------------------------------
(* Combination search, lines 269-294 *)

prepend_all(x, ss) == [i \in DOMAIN ss |-> <<x>> \o ss[i]]

\* itertools.combinations over positions lo..n, k at a time, in its order
RECURSIVE index_combinations(_, _, _)
index_combinations(lo, n, k) ==
    IF k = 0 THEN << <<>> >>
    ELSE IF lo > n THEN <<>>
    ELSE prepend_all(lo, index_combinations(lo + 1, n, k - 1))
           \o index_combinations(lo + 1, n, k)

\* markets_overlap comparing the orders' own ids instead of their markets
markets_overlap_by_order_id(c) ==
    \E j \in DOMAIN c : \E k \in DOMAIN c : j # k /\ c[j].fm_id = c[k].fm_id

\* markets_overlap of lines 286-291
markets_overlap(c) ==
    \E j \in DOMAIN c : \E k \in DOMAIN c : j # k /\ c[j].market = c[k].market

RECURSIVE combinations_from_size(_, _, _)
combinations_from_size(src, i, n) ==
    IF i > n THEN <<>>
    ELSE LET idx == index_combinations(1, Len(src), i)
             all == [x \in DOMAIN idx |-> [y \in DOMAIN idx[x] |-> src[idx[x][y]]]]
         IN  SelectSeq(all, LAMBDA c : ~markets_overlap(c))
               \o combinations_from_size(src, i + 1, n)

\* _possible_combinations: every single order, then the combinations of
\* 2.._num_states orders on distinct markets
possible_combinations(bk, n) ==
    LET l == bid_ask_info_dict_to_list(bk)
        combine_bid_ask == l.ask \o l.bid
    IN  [i \in DOMAIN combine_bid_ask |-> <<combine_bid_ask[i]>>]
          \o combinations_from_size(combine_bid_ask, 2, n)

-----------------------------------------------------------------------------
(* What-if scoring and feasibility, lines 188-204 and 577-626.  The source   *)
(* works on the agent's own dictionaries (holdings = self._current_holdings, *)
(* units_available = self._current_units_available are references, not       *)
(* copies), so each operator returns the dictionaries as it leaves them.     *)

\* a variant of the loop of lines 196-202 whose else branch leaves cash alone
RECURSIVE apply_orders_cash_one_sided(_, _, _)
apply_orders_cash_one_sided(orders, hold, c) ==
    IF orders = <<>> THEN [holdings |-> hold, cash |-> c]
    ELSE LET o == Head(orders)
         IN  IF o.side = "SELL"
             THEN apply_orders_cash_one_sided(Tail(orders),
                               [hold EXCEPT ![o.market] = @ + o.units],
                               c - o.price * o.units)
             ELSE apply_orders_cash_one_sided(Tail(orders),
                               [hold EXCEPT ![o.market] = @ - o.units],
                               c)

\* the loop of get_potential_performance (lines 196-202): a SELL order of the
\* book is bought from, any other order is sold to
RECURSIVE apply_orders(_, _, _)
apply_orders(orders, hold, c) ==
    IF orders = <<>> THEN [holdings |-> hold, cash |-> c]
    ELSE LET o == Head(orders)
         IN  IF o.side = "SELL"
             THEN apply_orders(Tail(orders),
                               [hold EXCEPT ![o.market] = @ + o.units],
                               c - o.price * o.units)
             ELSE apply_orders(Tail(orders),
                               [hold EXCEPT ![o.market] = @ - o.units],
                               c + o.price * o.units)

\* get_potential_performance
get_potential_performance(orders, hold, av) ==
    Bind(apply_orders(orders, holdings_info_units(hold, snap), cash),
         LAMBDA r :
           [perf |-> calculate_performance(r.cash, r.holdings, r.holdings,
                                           variances, covariances, market_ids,
                                           payoffs, num_states),
            holdings |-> r.holdings,
            avail |-> holdings_info_available(av, snap)])

\* _order_valid
order_valid(o, av) ==
    LET c   == IF o.side = "BUY" THEN cash - o.price ELSE cash
        av1 == IF o.side = "SELL"
               THEN [av EXCEPT ![o.market] = @ - o.units] ELSE av
    IN  [ok |-> ~(c < 0) /\ ~(av1[o.market] < 0), avail |-> av1]

RECURSIVE list_order_fold(_, _, _)
list_order_fold(orders, c, av) ==
    IF orders = <<>> THEN [cash |-> c, avail |-> av]
    ELSE LET o == Head(orders)
         IN  IF o.side = "BUY"
             THEN list_order_fold(Tail(orders), c,
                                  [av EXCEPT ![o.market] = @ - o.units])
             ELSE list_order_fold(Tail(orders), c - o.price, av)

\* _list_order_valid
list_order_valid(orders, av) ==
    IF orders = <<>> THEN [ok |-> FALSE, avail |-> av]
    ELSE Bind(list_order_fold(orders, cash, av),
              LAMBDA r :
                [ok |-> ~(r.cash < 0) /\ \A m \in DOMAIN r.avail : ~(r.avail[m] < 0),
                 avail |-> r.avail])

\* the body of the loop of _most_optimal_performance, lines 234-238
most_optimal_step(st, c) ==
    Bind(get_potential_performance(c, st.holdings, st.avail),
         LAMBDA g1 :
           IF g1.perf > current_performance
           THEN Bind(list_order_valid(c, g1.avail),
                     LAMBDA v :
                       IF v.ok
                       THEN Bind(get_potential_performance(c, g1.holdings, v.avail),
                                 LAMBDA g2 :
                                   [score |-> g2.perf, comb |-> c,
                                    holdings |-> g2.holdings, avail |-> g2.avail])
                       ELSE [st EXCEPT !.holdings = g1.holdings, !.avail = v.avail])
           ELSE [st EXCEPT !.holdings = g1.holdings, !.avail = g1.avail])

RECURSIVE most_optimal_fold(_, _)
most_optimal_fold(combos, st) ==
    IF combos = <<>> THEN st
    ELSE Bind(most_optimal_step(st, Head(combos)),
              LAMBDA s1 : most_optimal_fold(Tail(combos), s1))

\* _most_optimal_performance: performance_score starts at 0, self._combination
\* is whatever an earlier call left
most_optimal_performance(bk, hold, av, comb) ==
    most_optimal_fold(possible_combinations(bk, num_states),
                      [score |-> 0, comb |-> comb, holdings |-> hold, avail |-> av])

\* is_portfolio_optimal
is_portfolio_optimal(bk, hold, av, comb) ==
    Bind(holdings_info_units(hold, snap),
         LAMBDA h0 :
           Bind(most_optimal_performance(bk, h0,
                                         holdings_info_available(av, snap), comb),
                LAMBDA r :
                  [optimal |-> ~(r.score > calculate_performance(
                                               cash, h0, h0, variances, covariances,
                                               market_ids, payoffs, num_states)),
                   comb |-> r.comb,
                   holdings |-> r.holdings, avail |-> r.avail]))

-----------------------------------------------------------------------------
(* Market maker, lines 399-527 *)

\* range(a, b, s)
RECURSIVE py_range(_, _, _)
py_range(a, b, s) ==
    IF (s > 0 /\ a >= b) \/ (s < 0 /\ a <= b) THEN <<>>
    ELSE <<a>> \o py_range(a + s, b, s)

flip_side(side) == IF side = "BUY" THEN "SELL" ELSE "BUY"

\* Order.create_new() with the fields set in lines 451-456
new_order(m, side, price) ==
    [fm_id |-> 0, market |-> m, side |-> side, price |-> price, units |-> 1,
     mine |-> TRUE, pending |-> FALSE, placed |-> now]

\* one price ladder (each of the four for-loops of lines 446-524): stop at
\* the first price whose order passes _order_valid and scores above the
\* current performance, and emit it with the side flipped
RECURSIVE ladder_walk(_, _, _, _)
ladder_walk(prices, side, m, st) ==
    IF prices = <<>> THEN st
    ELSE LET o == new_order(m, side, Head(prices))
         IN  Bind(order_valid(o, st.avail),
                  LAMBDA v :
                    IF v.ok
                    THEN Bind(get_potential_performance(<<o>>, st.holdings, v.avail),
                              LAMBDA g :
                                IF g.perf > current_performance /\ ~waiting_for_mm
                                THEN [found |-> TRUE,
                                      orders |-> Append(st.orders,
                                                        [o EXCEPT !.side = flip_side(side)]),
                                      holdings |-> g.holdings, avail |-> g.avail]
                                ELSE ladder_walk(Tail(prices), side, m,
                                                 [found |-> st.found,
                                                  orders |-> st.orders,
                                                  holdings |-> g.holdings,
                                                  avail |-> g.avail]))
                    ELSE ladder_walk(Tail(prices), side, m,
                                     [found |-> st.found, orders |-> st.orders,
                                      holdings |-> st.holdings, avail |-> v.avail]))

\* the body of the loop over the held markets, lines 442-524
mm_market(m, sell_preferred, bb, ba, st) ==
    LET lo   == IF m \in DOMAIN bb THEN bb[m].price ELSE min_price + 1
        hi   == IF m \in DOMAIN ba THEN ba[m].price ELSE max_price - 1
        up   == py_range(lo, hi, price_tick)
        down == py_range(hi, lo, 0 - price_tick)
        s0   == [st EXCEPT !.found = FALSE]
    IN  IF sell_preferred = 1
        THEN Bind(ladder_walk(up, "BUY", m, s0),
                  LAMBDA s1 : IF s1.found THEN s1
                              ELSE ladder_walk(down, "SELL", m, s1))
        ELSE Bind(ladder_walk(down, "SELL", m, s0),
                  LAMBDA s1 : IF s1.found THEN s1
                              ELSE ladder_walk(up, "BUY", m, s1))

RECURSIVE mm_markets(_, _, _, _, _)
mm_markets(ms, sp, bb, ba, st) ==
    IF ms = <<>> THEN st
    ELSE Bind(mm_market(Head(ms), sp[Head(ms)], bb, ba, st),
              LAMBDA s1 : mm_markets(Tail(ms), sp, bb, ba, s1))

\* _market_maker_order up to line 525: the order list; sp[m] is randint(0, 1)
\* drawn for market m
market_maker_order(bk, sp, hold, av) ==
    Bind(bid_ask_fold(bk, [bid |-> EmptyDict, ask |-> EmptyDict], TRUE),
         LAMBDA d :
           mm_markets(SortedSeq(DOMAIN hold), sp, d.bid, d.ask,
                      [found |-> FALSE, orders |-> <<>>, holdings |-> hold,
                       avail |-> av]))

-----------------------------------------------------------------------------
(* Decision state machine *)

\* _if_no_pending_order
if_no_pending_order(bk) == ~\E i \in DOMAIN bk : bk[i].mine /\ bk[i].pending

\* the copies built in lines 389-396
make_order_list(comb) ==
    [i \in DOMAIN comb |-> [comb[i] EXCEPT !.side = flip_side(@), !.units = 1]]

\* _send_valid_order, lines 563-575: the orders handed to self.send_order.
\* The body is a docstring and nothing else.
send_valid_order(order_to_send) == {}

\* the loop of _send_order_list, lines 556-559: _processed_list after it.
\* Orders are compared by value.
send_order_loop(order_list, proc) ==
    proc \cup {order_list[i] : i \in DOMAIN order_list}

\* the same loop: what reaches self.send_order
send_order_loop_sent(order_list, proc) ==
    UNION {send_valid_order(o) :
              o \in {order_list[i] : i \in DOMAIN order_list} \ proc}

\* lines 702-704; _time_condition_mm = (session_time * 3 / 40000) * 60
mm_condition_1_after(old, t, start) ==
    IF (t - start) * 40000 > session_time * 3 * 60 THEN 1 ELSE old

\* lines 705-709 without the test of line 705
mm_condition_2_unguarded(old, t, last_sent) ==
    IF t - last_sent > 1 THEN 1 ELSE 0

\* lines 705-709
mm_condition_2_after(old, t, last_sent) ==
    IF last_sent > 0
    THEN IF t - last_sent > 1 THEN 1 ELSE 0
    ELSE old

NoTrace == [raised |-> FALSE, mm |-> FALSE, mm_orders |-> <<>>,
            submit |-> FALSE, sent |-> <<>>]

-----------------------------------------------------------------------------
(* Inputs delivered by the market *)

Sides == {"BUY", "SELL"}

\* orders that can rest in the book; order ids and market ids come from
\* different sequences of the server
AskA == [fm_id |-> 11, market |-> 1, side |-> "SELL", price |-> 100, units |-> 2,
         mine |-> FALSE, pending |-> TRUE, placed |-> 1]
AskB == [fm_id |-> 12, market |-> 2, side |-> "SELL", price |-> 150, units |-> 1,
         mine |-> FALSE, pending |-> TRUE, placed |-> 1]
BidA == [fm_id |-> 13, market |-> 1, side |-> "BUY", price |-> 300, units |-> 2,
         mine |-> FALSE, pending |-> TRUE, placed |-> 1]
LowBidA == [fm_id |-> 14, market |-> 1, side |-> "BUY", price |-> 200, units |-> 1,
            mine |-> FALSE, pending |-> TRUE, placed |-> 1]
OwnBidA == [fm_id |-> 15, market |-> 1, side |-> "BUY", price |-> 100, units |-> 1,
            mine |-> TRUE, pending |-> TRUE, placed |-> 1]

OrderPool == {AskA, OwnBidA}
SearchPool == {AskA, AskB, BidA, LowBidA, OwnBidA}

RECURSIVE BooksOfLen(_, _)
BooksOfLen(pool, k) ==
    IF k = 0 THEN { <<>> }
    ELSE { Append(b, o) : b \in BooksOfLen(pool, k - 1), o \in pool }

\* order books: up to max distinct resting orders of the pool, in any order
BooksOver(pool, max) ==
    { b \in UNION { BooksOfLen(pool, k) : k \in 0..max } :
        \A i \in DOMAIN b : \A j \in DOMAIN b : i # j => b[i] # b[j] }

Books == BooksOver(OrderPool, MaxBook)
SearchBooks == BooksOver(SearchPool, MaxSearchBook)

\* holdings snapshots: cash, units and units available per market
Holding(ua, ub) ==
    [units |-> (1 :> ua[1]) @@ (2 :> ub[1]),
     units_available |-> (1 :> ua[2]) @@ (2 :> ub[2])]

Snapshot(c, ua, ub) ==
    [cash |-> c, units |-> Holding(ua, ub).units,
     units_available |-> Holding(ua, ub).units_available]

Snapshots ==
    { Snapshot(200, <<0, 0>>, <<0, 0>>), Snapshot(0, <<0 - 1, 0>>, <<0, 0>>) }

SearchSnapshots ==
    { Snapshot(c, a, b) : c \in {0, 200},
                          a \in { <<0 - 1, 0>>, <<0, 0>>, <<1, 1>> },
                          b \in { <<0, 0>>, <<1, 1>> } }

-----------------------------------------------------------------------------
(* Handlers *)

\* the agent after __init__ (lines 33-82), in a marketplace with markets mk
InitWith(mk) ==
    /\ now = 1
    /\ markets = mk
    /\ book = <<>>
    /\ snap = NoSnap
    /\ payoffs = EmptyDict
    /\ market_ids = EmptyDict
    /\ num_states = 0
    /\ cash = 0
    /\ current_holdings = EmptyDict
    /\ current_units_available = EmptyDict
    /\ current_performance = 0
    /\ variances = EmptyDict
    /\ covariances = EmptyDict
    /\ best_bid = <<>>
    /\ best_ask = <<>>
    /\ processed_list = {}
    /\ combination = <<>>
    /\ session_open = FALSE
    /\ waiting_for_server = FALSE
    /\ waiting_for_mm = FALSE
    /\ list_used_up = FALSE
    /\ time_start = 0
    /\ time_last_order_sent = 0
    /\ mm_condition_1 = 0
    /\ mm_condition_2 = 0
    /\ pcMain = "new"
    /\ pcTimer = "idle"
    /\ last = "init"
    /\ trace = NoTrace
    /\ outbox = {}
    /\ unconfirmed = "none"

Init == InitWith(MarketsConfig)

\* time passes
Tick ==
    /\ now < MaxTime
    /\ now' = now + 1
    /\ last' = "tick"
    /\ UNCHANGED << markets, book, snap, payoffs, market_ids, num_states, cash,
                    current_holdings, current_units_available,
                    current_performance, variances, covariances, best_bid,
                    best_ask, processed_list, combination, session_open,
                    waiting_for_server, waiting_for_mm, list_used_up,
                    time_start, time_last_order_sent, mm_condition_1,
                    mm_condition_2, pcMain, pcTimer, trace, outbox, unconfirmed >>

\* initialised, lines 84-102
Initialised ==
    /\ pcMain = "new"
    /\ market_ids' = markets
    /\ payoffs' =
         [it \in {markets[m].item : m \in DOMAIN markets} |->
             LET ms == {m \in DOMAIN markets : markets[m].item = it}
                 mx == CHOOSE m \in ms : \A x \in ms : x <= m
             IN  markets[mx].description]
    /\ num_states' = Cardinality(DOMAIN payoffs')
    /\ pcMain' = "idle"
    /\ last' = "initialised"
    /\ UNCHANGED << now, markets, book, snap, cash, current_holdings,
                    current_units_available, current_performance, variances,
                    covariances, best_bid, best_ask, processed_list,
                    combination, session_open, waiting_for_server,
                    waiting_for_mm, list_used_up, time_start,
                    time_last_order_sent, mm_condition_1, mm_condition_2,
                    pcTimer, trace, outbox, unconfirmed >>

\* received_session_info, lines 628-636
ReceivedSessionInfo(is_open) ==
    /\ pcMain = "idle"
    /\ session_open' = (IF is_open THEN TRUE ELSE session_open)
    /\ time_start' = now
    /\ last' = "received_session_info"
    /\ UNCHANGED << now, markets, book, snap, payoffs, market_ids, num_states,
                    cash, current_holdings, current_units_available,
                    current_performance, variances, covariances, best_bid,
                    best_ask, processed_list, combination, waiting_for_server,
                    waiting_for_mm, list_used_up, time_last_order_sent,
                    mm_condition_1, mm_condition_2, pcMain, pcTimer, trace,
                    outbox, unconfirmed >>

\* a variant of received_holdings that leaves _current_performance as it was
ReceivedHoldingsKeepingScore(s) ==
    /\ pcMain = "idle"
    /\ snap' = s
    /\ cash' = s.cash
    /\ current_holdings' = holdings_info_units(current_holdings, s)
    /\ current_units_available' =
           holdings_info_available(current_units_available, s)
    /\ variances' = make_variance(market_ids, payoffs, num_states)
    /\ covariances' = make_covariance(covariances, current_holdings',
                                      market_ids, payoffs, num_states)
    /\ current_performance' = current_performance
    /\ mm_condition_1' = mm_condition_1_after(mm_condition_1, now, time_start)
    /\ mm_condition_2' = mm_condition_2_after(mm_condition_2, now,
                                              time_last_order_sent)
    /\ last' = "received_holdings"
    /\ UNCHANGED << now, markets, book, payoffs, market_ids, num_states,
                    best_bid, best_ask, processed_list, combination,
                    session_open, waiting_for_server, waiting_for_mm,
                    list_used_up, time_start, time_last_order_sent, pcMain,
                    pcTimer, trace, outbox, unconfirmed >>

\* received_holdings, lines 675-713; the runtime stores the snapshot in
\* self.holdings and calls the handler
ReceivedHoldings(s) ==
    /\ pcMain = "idle"
    /\ snap' = s
    /\ cash' = s.cash
    /\ current_holdings' = holdings_info_units(current_holdings, s)
    /\ current_units_available' =
           holdings_info_available(current_units_available, s)
    /\ variances' = make_variance(market_ids, payoffs, num_states)
    /\ covariances' = make_covariance(covariances, current_holdings',
                                      market_ids, payoffs, num_states)
    /\ current_performance' =
           calculate_performance(cash', current_holdings', current_holdings',
                                 variances', covariances', market_ids, payoffs,
                                 num_states)
    /\ mm_condition_1' = mm_condition_1_after(mm_condition_1, now, time_start)
    /\ mm_condition_2' = mm_condition_2_after(mm_condition_2, now,
                                              time_last_order_sent)
    /\ last' = "received_holdings"
    /\ UNCHANGED << now, markets, book, payoffs, market_ids, num_states,
                    best_bid, best_ask, processed_list, combination,
                    session_open, waiting_for_server, waiting_for_mm,
                    list_used_up, time_start, time_last_order_sent, pcMain,
                    pcTimer, trace, outbox, unconfirmed >>

\* a variant of order_accepted that clears _list_used_up but not
\* _waiting_for_server
OrderAcceptedKeepingWaiting ==
    /\ pcMain = "idle"
    /\ waiting_for_server' = waiting_for_server
    /\ list_used_up' = FALSE
    /\ waiting_for_mm' = FALSE
    /\ unconfirmed' = "none"
    /\ last' = "order_accepted"
    /\ UNCHANGED << now, markets, book, snap, payoffs, market_ids, num_states,
                    cash, current_holdings, current_units_available,
                    current_performance, variances, covariances, best_bid,
                    best_ask, processed_list, combination, session_open,
                    time_start, time_last_order_sent, mm_condition_1,
                    mm_condition_2, pcMain, pcTimer, trace, outbox >>

\* order_accepted, lines 252-261
OrderAccepted ==
    /\ pcMain = "idle"
    /\ waiting_for_server' = (IF list_used_up THEN FALSE ELSE waiting_for_server)
    /\ list_used_up' = FALSE
    /\ waiting_for_mm' = FALSE
    /\ unconfirmed' = "none"
    /\ last' = "order_accepted"
    /\ UNCHANGED << now, markets, book, snap, payoffs, market_ids, num_states,
                    cash, current_holdings, current_units_available,
                    current_performance, variances, covariances, best_bid,
                    best_ask, processed_list, combination, session_open,
                    time_start, time_last_order_sent, mm_condition_1,
                    mm_condition_2, pcMain, pcTimer, trace, outbox >>

\* order_rejected, lines 263-267
OrderRejected ==
    /\ pcMain = "idle"
    /\ waiting_for_server' = FALSE
    /\ unconfirmed' = "none"
    /\ last' = "order_rejected"
    /\ UNCHANGED << now, markets, book, snap, payoffs, market_ids, num_states,
                    cash, current_holdings, current_units_available,
                    current_performance, variances, covariances, best_bid,
                    best_ask, processed_list, combination, session_open,
                    waiting_for_mm, list_used_up, time_start,
                    time_last_order_sent, mm_condition_1, mm_condition_2,
                    pcMain, pcTimer, trace, outbox >>

\* the guard of lines 387-388 without the test of _waiting_for_server
should_submit_while_waiting(optimal, waiting, bk) ==
    ~optimal /\ if_no_pending_order(bk)

\* the guard of lines 387-388
should_submit(optimal, waiting, bk) ==
    ~optimal /\ ~waiting /\ if_no_pending_order(bk)

\* the guard of line 375-376
mm_go(bk) ==
    mm_condition_1 # 0 /\ mm_condition_2 # 0 /\ if_no_pending_order(bk)

\* received_orders, lines 364-397, up to and including the loop of
\* _send_order_list (lines 556-559).  The runtime has updated Order.current()
\* to bk.  Before the first holdings update self.holdings is None and
\* is_portfolio_optimal raises in _current_holdings_info.
ReceivedOrders(bk) ==
    /\ pcMain = "idle"
    /\ book' = bk
    /\ last' = "received_orders"
    /\ IF snap = NoSnap
       THEN /\ trace' = [NoTrace EXCEPT !.raised = TRUE]
            /\ outbox' = {}
            /\ UNCHANGED << current_holdings, current_units_available, best_bid,
                            best_ask, processed_list, combination,
                            waiting_for_server, list_used_up,
                            time_last_order_sent, pcMain, unconfirmed >>
       ELSE \E go \in {mm_go(bk)} :
            \E sp \in (IF go THEN [DOMAIN current_holdings -> {0, 1}]
                              ELSE {EmptyDict}) :
            \E mm \in {IF go
                        THEN market_maker_order(bk, sp, current_holdings,
                                                current_units_available)
                        ELSE [found |-> FALSE, orders |-> <<>>,
                              holdings |-> current_holdings,
                              avail |-> current_units_available]} :
            \E opt \in {is_portfolio_optimal(bk, mm.holdings, mm.avail,
                                              combination)} :
            \E lists \in {bid_ask_info_dict_to_list(bk)} :
            LET proc1  == IF go THEN send_order_loop(mm.orders, processed_list)
                                ELSE processed_list
                w1     == IF go THEN TRUE ELSE waiting_for_server
                l1     == IF go THEN TRUE ELSE list_used_up
                submit == should_submit(opt.optimal, w1, bk)
                mol    == make_order_list(opt.comb)
            IN  /\ current_holdings' = opt.holdings
                /\ current_units_available' = opt.avail
                /\ best_bid' = lists.bid
                /\ best_ask' = lists.ask
                /\ combination' = opt.comb
                /\ waiting_for_server' = w1
                /\ list_used_up' = l1
                /\ time_last_order_sent' = (IF go THEN now ELSE time_last_order_sent)
                /\ processed_list' = (IF submit THEN send_order_loop(mol, proc1)
                                                ELSE proc1)
                /\ outbox' =
                     (IF go THEN send_order_loop_sent(mm.orders, processed_list)
                            ELSE {})
                     \cup (IF submit THEN send_order_loop_sent(mol, proc1)
                                    ELSE {})
                /\ pcMain' = (IF submit THEN "send_w" ELSE "idle")
                /\ unconfirmed' = (IF submit /\ mol # <<>> THEN "sent"
                                                              ELSE unconfirmed)
                /\ trace' = [raised |-> FALSE, mm |-> go, mm_orders |-> mm.orders,
                             submit |-> submit,
                             sent |-> IF submit THEN mol ELSE <<>>]
    /\ UNCHANGED << now, markets, snap, payoffs, market_ids, num_states, cash,
                    current_performance, variances, covariances, session_open,
                    waiting_for_mm, time_start, mm_condition_1, mm_condition_2,
                    pcTimer >>

\* _send_order_list, line 560
SendOrderListWaiting ==
    /\ pcMain = "send_w"
    /\ waiting_for_server' = TRUE
    /\ pcMain' = "send_l"
    /\ last' = "send_order_list"
    /\ UNCHANGED << now, markets, book, snap, payoffs, market_ids, num_states,
                    cash, current_holdings, current_units_available,
                    current_performance, variances, covariances, best_bid,
                    best_ask, processed_list, combination, session_open,
                    waiting_for_mm, list_used_up, time_start,
                    time_last_order_sent, mm_condition_1, mm_condition_2,
                    pcTimer, trace, outbox, unconfirmed >>

\* _send_order_list, line 561, and the return of received_orders
SendOrderListUsedUp ==
    /\ pcMain = "send_l"
    /\ list_used_up' = TRUE
    /\ pcMain' = "idle"
    /\ last' = "send_order_list"
    /\ UNCHANGED << now, markets, book, snap, payoffs, market_ids, num_states,
                    cash, current_holdings, current_units_available,
                    current_performance, variances, covariances, best_bid,
                    best_ask, processed_list, combination, session_open,
                    waiting_for_server, waiting_for_mm, time_start,
                    time_last_order_sent, mm_condition_1, mm_condition_2,
                    pcTimer, trace, outbox, unconfirmed >>

\* _order_idle_check, lines 652-663: the orders a cancel is sent for
order_idle_check(bk) == {bk[i] : i \in {j \in DOMAIN bk : bk[j].pending /\ bk[j].mine}}

\* pre_start_tasks, lines 645-647, on the timer thread
PreStartTasks ==
    /\ pcTimer = "idle"
    /\ outbox' = (IF session_open THEN order_idle_check(book) ELSE {})
    /\ pcTimer' = "toggle_w"
    /\ last' = "pre_start_tasks"
    /\ UNCHANGED << now, markets, book, snap, payoffs, market_ids, num_states,
                    cash, current_holdings, current_units_available,
                    current_performance, variances, covariances, best_bid,
                    best_ask, processed_list, combination, session_open,
                    waiting_for_server, waiting_for_mm, list_used_up,
                    time_start, time_last_order_sent, mm_condition_1,
                    mm_condition_2, pcMain, trace, unconfirmed >>

\* a variant of the timer's step that does not clear _waiting_for_server
ToggleWaitingSkipped ==
    /\ pcTimer = "toggle_w"
    /\ waiting_for_server' = waiting_for_server
    /\ unconfirmed' = (IF unconfirmed = "sent" THEN "reset" ELSE unconfirmed)
    /\ pcTimer' = "toggle_l"
    /\ last' = "pre_start_tasks"
    /\ UNCHANGED << now, markets, book, snap, payoffs, market_ids, num_states,
                    cash, current_holdings, current_units_available,
                    current_performance, variances, covariances, best_bid,
                    best_ask, processed_list, combination, session_open,
                    waiting_for_mm, list_used_up, time_start,
                    time_last_order_sent, mm_condition_1, mm_condition_2,
                    pcMain, trace, outbox >>

\* pre_start_tasks, line 649
ToggleWaiting ==
    /\ pcTimer = "toggle_w"
    /\ waiting_for_server' = FALSE
    /\ unconfirmed' = (IF unconfirmed = "sent" THEN "reset" ELSE unconfirmed)
    /\ pcTimer' = "toggle_l"
    /\ last' = "pre_start_tasks"
    /\ UNCHANGED << now, markets, book, snap, payoffs, market_ids, num_states,
                    cash, current_holdings, current_units_available,
                    current_performance, variances, covariances, best_bid,
                    best_ask, processed_list, combination, session_open,
                    waiting_for_mm, list_used_up, time_start,
                    time_last_order_sent, mm_condition_1, mm_condition_2,
                    pcMain, trace, outbox >>

\* pre_start_tasks, line 650
ToggleUsedUp ==
    /\ pcTimer = "toggle_l"
    /\ list_used_up' = FALSE
    /\ pcTimer' = "idle"
    /\ last' = "pre_start_tasks"
    /\ UNCHANGED << now, markets, book, snap, payoffs, market_ids, num_states,
                    cash, current_holdings, current_units_available,
                    current_performance, variances, covariances, best_bid,
                    best_ask, processed_list, combination, session_open,
                    waiting_for_server, waiting_for_mm, time_start,
                    time_last_order_sent, mm_condition_1, mm_condition_2,
                    pcMain, trace, outbox, unconfirmed >>

Next ==
    \/ Tick
    \/ Initialised
    \/ \E is_open \in BOOLEAN : ReceivedSessionInfo(is_open)
    \/ \E s \in Snapshots : ReceivedHoldings(s)
    \/ \E bk \in Books : ReceivedOrders(bk)
    \/ SendOrderListWaiting
    \/ SendOrderListUsedUp
    \/ OrderAccepted
    \/ OrderRejected
    \/ PreStartTasks
    \/ ToggleWaiting
    \/ ToggleUsedUp

Spec == Init /\ [][Next]_vars

\* The program with its handlers run one at a time: a callback of the runtime
\* starts only while the timer thread is outside pre_start_tasks, and
\* pre_start_tasks starts only while no callback is running.
NextOneAtATime ==
    \/ Tick
    \/ pcTimer = "idle" /\ Initialised
    \/ pcTimer = "idle" /\ \E is_open \in BOOLEAN : ReceivedSessionInfo(is_open)
    \/ pcTimer = "idle" /\ \E s \in Snapshots : ReceivedHoldings(s)
    \/ pcTimer = "idle" /\ \E bk \in Books : ReceivedOrders(bk)
    \/ pcTimer = "idle" /\ SendOrderListWaiting
    \/ pcTimer = "idle" /\ SendOrderListUsedUp
    \/ pcTimer = "idle" /\ OrderAccepted
    \/ pcTimer = "idle" /\ OrderRejected
    \/ pcMain \in {"new", "idle"} /\ PreStartTasks
    \/ ToggleWaiting
    \/ ToggleUsedUp

SpecOneAtATime == Init /\ [][NextOneAtATime]_vars

\* no handler is part-way through: the runtime thread is between callbacks
\* and the timer thread is outside pre_start_tasks
BetweenHandlers ==
    pcMain \in {"new", "idle"} /\ pcTimer = "idle"

\* The timer re-arms itself first thing in pre_start_tasks (line 645), so the
\* timer thread keeps running: each of its steps, once enabled, is taken.
\* Nothing obliges the market to send updates or confirmations.
SpecFair ==
    /\ Spec
    /\ WF_vars(PreStartTasks)
    /\ WF_vars(ToggleWaiting)
    /\ WF_vars(ToggleUsedUp)

\* The search scenario: the agent starts, receives one holdings snapshot and
\* then one market update, over a larger set of books and snapshots.
NextSearch ==
    \/ Initialised
    \/ last = "initialised" /\ \E s \in SearchSnapshots : ReceivedHoldings(s)
    \/ last = "received_holdings" /\ \E bk \in SearchBooks : ReceivedOrders(bk)
    \/ SendOrderListWaiting
    \/ SendOrderListUsedUp

SpecSearch == Init /\ [][NextSearch]_vars

\* payoff sequences of 2..max states, each payoff 0 or 400 cents
PayoffSeqs(max) ==
    UNION { [1..k -> {0, max_price}] : k \in 2..max }

\* marketplaces with two securities, whose payoff sequences need not have the
\* same length
MarketConfigs ==
    { (1 :> [item |-> "A", description |-> p]) @@
      (2 :> [item |-> "B", description |-> q]) :
          p \in PayoffSeqs(MaxStates), q \in PayoffSeqs(MaxStates) }

\* The start-up scenario: the agent is started in any marketplace of
\* MarketConfigs and receives holdings updates.
InitAnyMarket == \E mk \in MarketConfigs : InitWith(mk)

NextStartUp ==
    \/ Initialised
    \/ \E s \in Snapshots : ReceivedHoldings(s)

SpecStartUp == InitAnyMarket /\ [][NextStartUp]_vars

-----------------------------------------------------------------------------
(* Reference definitions used by the properties *)

\* score of the portfolio after trading combination c against the book,
\* from the cash and holdings of the latest snapshot
PotentialScore(c) ==
    get_potential_performance(c, current_holdings, current_units_available).perf

\* the feasibility check of the search, on the units of the latest snapshot
SearchFeasible(c) == list_order_valid(c, snap.units_available).ok

\* positions of the candidate combinations of book bk that are feasible and
\* score strictly above the current score
Improving(bk) ==
    LET cs == possible_combinations(bk, num_states)
    IN  {i \in DOMAIN cs :
            PotentialScore(cs[i]) > current_performance /\ SearchFeasible(cs[i])}

\* cash and available units after the agent trades one unit per order, an
\* order being given with the side the agent takes
CashAfter(orders, c) ==
    c + SumSeq([i \in DOMAIN orders |->
                   IF orders[i].side = "BUY" THEN 0 - orders[i].price
                                             ELSE orders[i].price])

UnitsAfter(orders, av, m) ==
    av[m] + SumSeq([i \in DOMAIN orders |->
                       IF orders[i].market # m THEN 0
                       ELSE IF orders[i].side = "BUY" THEN 1 ELSE 0 - 1])

FeasibleAsSent(orders, s) ==
    /\ CashAfter(orders, s.cash) >= 0
    /\ \A m \in DOMAIN s.units_available :
           UnitsAfter(orders, s.units_available, m) >= 0

AtMostOnePerSecurity(c) ==
    \A m \in {c[i].market : i \in DOMAIN c} :
        Cardinality({i \in DOMAIN c : c[i].market = m}) <= 1

\* the exact inverse of a combination: every leg's side flipped, same market,
\* price and units
inverse_combination(c) ==
    [i \in DOMAIN c |->
        [c[i] EXCEPT !.side = IF @ = "BUY" THEN "SELL" ELSE "BUY"]]

\* the score of _calculate_performance for cash c and holdings hold, with the
\* risk model of the current state
ScoreOf(c, hold) ==
    calculate_performance(c, hold, hold, variances, covariances, market_ids,
                          payoffs, num_states)

\* the effect of a combination followed by the effect of its inverse
RoundTrip(c, hold, csh) ==
    Bind(apply_orders(c, hold, csh),
         LAMBDA r : apply_orders(inverse_combination(c), r.holdings, r.cash))

\* the combinations of a book: the candidates of _possible_combinations and
\* the whole book
CombinationsOf(bk) ==
    {bk} \cup {possible_combinations(bk, num_states)[i] :
                  i \in DOMAIN possible_combinations(bk, num_states)}

\* the stored risk model is the one computed from the payoffs for the latest
\* holdings snapshot, and _current_performance is the score of the latest
\* cash and holdings under it, which is also the score that
\* get_potential_performance gives the empty combination, the base every
\* candidate is scored from
FreshBaseline ==
    /\ cash = snap.cash
    /\ variances = make_variance(market_ids, payoffs, num_states)
    /\ covariances = make_covariance(EmptyDict, snap.units, market_ids, payoffs,
                                     num_states)
    /\ current_performance = ScoreOf(snap.cash, snap.units)
    /\ current_performance =
           get_potential_performance(<<>>, current_holdings,
                                     current_units_available).perf

ElapsedBelowThreshold ==
    (now - time_start) * 40000 < session_time * 3 * 60

\* a market update hands a combination to _send_order_list
ReactiveSubmission ==
    pcMain = "idle" /\ pcMain' = "send_w" /\ trace'.sent # <<>>

-----------------------------------------------------------------------------
(* Properties *)

\* C1 (as stated): once a market update has submitted a reactive combination,
\* no later market update submits another one before an order-accepted or
\* order-rejected confirmation has arrived.
C1_NoDuplicateSubmission ==
    [][ReactiveSubmission => unconfirmed = "none"]_vars

\* C1 (amended): once a market update has submitted a reactive combination,
\* no later market update submits another one before a confirmation has
\* arrived or the timer (pre_start_tasks) has cleared the waiting flag.
C1_NoDuplicateUntilConfirmOrReset ==
    [][ReactiveSubmission => unconfirmed # "sent"]_vars

\* a market update found an improving combination while a submission was
\* outstanding, and did not submit
C1_Witness ==
    /\ last = "received_orders"
    /\ unconfirmed = "sent"
    /\ waiting_for_server
    /\ if_no_pending_order(book)
    /\ Improving(book) # {}
    /\ ~trace.submit

\* C2: a market update that arrives while the time since the last session
\* start is below _time_condition_mm does not invoke _market_maker_order.
C2_MarketMakerTimeGating ==
    (last = "received_orders" /\ ElapsedBelowThreshold) => ~trace.mm

\* a market update arrived below the threshold with the time condition still
\* set from before the session start and no own order pending
C2_Witness ==
    /\ last = "received_orders"
    /\ ElapsedBelowThreshold
    /\ ~trace.raised
    /\ mm_condition_1 = 1
    /\ if_no_pending_order(book)
    /\ ~trace.mm

\* C3: a market update on which no feasible combination scores strictly
\* above the current score submits nothing and leaves _waiting_for_server
\* and _list_used_up unchanged.
C3_NoImprovementNoAction ==
    [][(last' = "received_orders" /\ snap # NoSnap /\ Improving(book') = {})
          => /\ pcMain' = "idle"
             /\ waiting_for_server' = waiting_for_server
             /\ list_used_up' = list_used_up]_vars

\* C4: after the search the retained combination is the feasible improving
\* candidate with the highest score, the first such in enumeration order.
C4_SearchReturnsBest ==
    (last = "received_orders" /\ ~trace.raised /\ Improving(book) # {}) =>
        LET cs   == possible_combinations(book, num_states)
            imp  == Improving(book)
            best == CHOOSE i \in imp :
                        /\ \A j \in imp : PotentialScore(cs[j]) <= PotentialScore(cs[i])
                        /\ \A j \in imp :
                               PotentialScore(cs[j]) = PotentialScore(cs[i]) => i <= j
        IN  combination = cs[best]

\* C5: the orders of every submission, reactive or market maker, are
\* feasible as sent against the cash and available units of the latest
\* holdings snapshot.
C5_SubmittedOrdersFeasible ==
    (last = "received_orders" /\ ~trace.raised) =>
        /\ trace.submit => FeasibleAsSent(trace.sent, snap)
        /\ trace.mm => FeasibleAsSent(trace.mm_orders, snap)

\* C6: get_potential_performance, _list_order_valid and _order_valid leave
\* _current_holdings and _current_units_available as they found them.
C6_WhatIfLeavesHoldings ==
    (/\ snap # NoSnap
     /\ current_holdings = snap.units
     /\ current_units_available = snap.units_available) =>
        LET cs == possible_combinations(book, num_states)
        IN  \A i \in DOMAIN cs :
              /\ get_potential_performance(cs[i], current_holdings,
                                           current_units_available).holdings
                     = current_holdings
              /\ get_potential_performance(cs[i], current_holdings,
                                           current_units_available).avail
                     = current_units_available
              /\ list_order_valid(cs[i], current_units_available).avail
                     = current_units_available
              /\ \A j \in DOMAIN cs[i] :
                     order_valid(cs[i][j], current_units_available).avail
                         = current_units_available

\* C7: _list_order_valid accepts a non-empty combination exactly when the
\* net cash and every security's available units are non-negative after all
\* legs (buy one unit per resting ask, sell one unit per resting bid).
C7_ListValidEqualsNetImpact ==
    snap # NoSnap =>
        LET cs == possible_combinations(book, num_states)
        IN  \A i \in DOMAIN cs :
              list_order_valid(cs[i], snap.units_available).ok
                  = FeasibleAsSent(make_order_list(cs[i]),
                                   [cash |-> cash,
                                    units_available |-> snap.units_available])

\* the best competing order of a side on a market, one unit; none if the
\* side has no competing order
BestCompeting(bk, m, side) ==
    LET os == {bk[i] : i \in {j \in DOMAIN bk :
                  bk[j].market = m /\ bk[j].side = side /\ ~bk[j].mine}}
    IN  IF os = {} THEN {}
        ELSE {unit_copy(o) : o \in {x \in os :
                  \A y \in os : IF side = "BUY" THEN y.price <= x.price
                                                ELSE x.price <= y.price}}

BestQuotes(bk, side) ==
    UNION {BestCompeting(bk, m, side) : m \in DOMAIN market_ids}

\* C8: after _get_bid_ask_info the bid entries are one-unit copies of the
\* highest competing bid of each market and the ask entries of the lowest
\* competing ask; no own order and no other order appears.
C8_SnapshotPicksBestQuotes ==
    (last = "received_orders" /\ ~trace.raised) =>
        /\ {best_bid[i] : i \in DOMAIN best_bid} = BestQuotes(book, "BUY")
        /\ {best_ask[i] : i \in DOMAIN best_ask} = BestQuotes(book, "SELL")

\* C9: every candidate combination, the retained combination and every
\* submitted order list hold at most one order per security.
C9_OneLegPerSecurity ==
    /\ pcMain # "new" =>
          LET cs == possible_combinations(book, num_states)
          IN  \A i \in DOMAIN cs : AtMostOnePerSecurity(cs[i])
    /\ AtMostOnePerSecurity(combination)
    /\ AtMostOnePerSecurity(trace.sent)

\* the book held a bid and an ask on one market and an ask on another, and a
\* two-leg combination was retained
C9_Witness ==
    /\ last = "received_orders"
    /\ \E i \in DOMAIN book : \E j \in DOMAIN book :
           i # j /\ book[i].market = book[j].market
                 /\ ~book[i].mine /\ ~book[j].mine
                 /\ book[i].side # book[j].side
    /\ Len(combination) = 2

\* C10: when order_accepted returns, _waiting_for_server is false.
C10_AcceptedReturnsToIdle ==
    last = "order_accepted" => ~waiting_for_server

\* C11: order_rejected clears the waiting flag and submits nothing, and the
\* market update that follows the rejection of an earlier submission, finding
\* an improving feasible combination and no own order pending, hands that
\* combination's orders to the market.
C11_RejectionAbsorbedAndRetried ==
    [][/\ last' = "order_rejected" =>
            /\ ~waiting_for_server'
            /\ pcMain' = "idle"
            /\ outbox' = outbox
       /\ (/\ last = "order_rejected"
           /\ processed_list # {}
           /\ last' = "received_orders"
           /\ snap # NoSnap
           /\ if_no_pending_order(book')
           /\ Improving(book') # {}) =>
               /\ trace'.submit
               /\ trace'.sent # <<>>
               /\ \A i \in DOMAIN trace'.sent : trace'.sent[i] \in outbox']_vars

\* no market update invokes _market_maker_order
MarketMakerNeverInvoked == ~trace.mm

\* C13: a market update that arrives with the session past its last-segment
\* threshold, the time condition set by a holdings update, no own order
\* pending and no order submitted by the agent before it invokes
\* _market_maker_order.
C13_MarketMakerReachable ==
    (/\ last = "received_orders"
     /\ ~trace.raised
     /\ (now - time_start) * 40000 > session_time * 3 * 60
     /\ mm_condition_1 = 1
     /\ if_no_pending_order(book)
     /\ processed_list \subseteq {trace.sent[i] : i \in DOMAIN trace.sent})
        => trace.mm

\* C14: no step of pre_start_tasks (the cancels, the two resets) is taken
\* between the check made by received_orders and the end of its
\* _send_order_list.
C14_TimerAndHandlerSerialized ==
    [][pcTimer' # pcTimer => pcMain \notin {"send_w", "send_l"}]_vars

\* C15: the idle check sends a cancel only for an order of the agent's own
\* that has been pending longer than the idle threshold.
C15_IdleCheckCancelsOnlyStaleOwn ==
    (last = "pre_start_tasks" /\ pcTimer = "toggle_w") =>
        \A o \in outbox : o.mine /\ now - o.placed > IDLE_CHECK_TIME

\* C16: once initialised has completed, _num_states equals the length of
\* every security's payoff sequence; in particular the agent does not start
\* with payoff sequences of different lengths.
C16_StateCountMatchesPayoffs ==
    pcMain # "new" =>
        \A it \in DOMAIN payoffs : Len(payoffs[it]) = num_states

\* C17: every variance stored by _make_variance is >= 0.
C17_VarianceNonNegative ==
    last = "received_holdings" =>
        \A m \in DOMAIN variances : variances[m] >= 0

\* C18: for the cash, the holdings and every combination of a market update,
\* the effect of the combination followed by the effect of its exact inverse
\* gives back the original cash and the original holding of every security,
\* and the score of the result, also as returned by
\* get_potential_performance for the combination followed by its inverse,
\* equals the original score.
C18_RoundTrip ==
    (last = "received_orders" /\ ~trace.raised) =>
        \A c \in CombinationsOf(book) :
            /\ \A hold \in {snap.units, current_holdings} :
                   /\ RoundTrip(c, hold, cash) = [holdings |-> hold, cash |-> cash]
                   /\ ScoreOf(RoundTrip(c, hold, cash).cash,
                              RoundTrip(c, hold, cash).holdings)
                        = ScoreOf(cash, hold)
            /\ get_potential_performance(c \o inverse_combination(c),
                                         current_holdings,
                                         current_units_available).perf
                 = ScoreOf(cash, snap.units)

\* a market update with a two-leg candidate one of whose legs has two units,
\* whose effect changes both cash and holdings
C18_Witness ==
    /\ last = "received_orders" /\ ~trace.raised
    /\ \E c \in CombinationsOf(book) :
           /\ Len(c) = 2
           /\ c[1].market # c[2].market
           /\ \E i \in DOMAIN c : c[i].units = 2
           /\ apply_orders(c, snap.units, cash).cash # cash
           /\ apply_orders(c, snap.units, cash).holdings # snap.units

\* C19: whenever a market update compares candidates against
\* _current_performance (received_orders is called and does not raise), that
\* value is the score of the cash and holdings the candidates are scored
\* from, under an up-to-date risk model; a market update before the first
\* holdings update raises and compares nothing.
C19_BaselineFresh ==
    [][/\ (/\ pcMain = "idle"
            /\ snap # NoSnap
            /\ last' = "received_orders") => (~trace'.raised /\ FreshBaseline)
       /\ (/\ pcMain = "idle"
            /\ snap = NoSnap
            /\ last' = "received_orders") =>
               (trace'.raised /\ ~trace'.submit /\ combination' = combination)]_vars

\* a market update has compared a non-empty list of candidates against the
\* score and found one improving; the what-if scoring has left the agent's
\* own holdings dictionary different from the holdings snapshot
C19_Witness ==
    /\ last = "received_orders"
    /\ ~trace.raised
    /\ possible_combinations(book, num_states) # <<>>
    /\ current_holdings # snap.units
    /\ trace.submit
    /\ FreshBaseline

\* C20: with the timer thread running, whenever _waiting_for_server is true
\* it is false again at some later point, whether or not order_accepted or
\* order_rejected is ever called.
C20_AwaitingConfirmationLeft ==
    waiting_for_server ~> ~waiting_for_server

\* a combination was submitted, nothing reached the market and no
\* confirmation came, and the timer has returned the engine to idle
C20_Witness ==
    /\ unconfirmed = "reset"
    /\ outbox = {}
    /\ last = "pre_start_tasks"
    /\ pcTimer = "toggle_l"
    /\ pcMain = "idle"
    /\ ~waiting_for_server

\* C21: when the handlers run one at a time, in every state between two
\* handlers _waiting_for_server implies _list_used_up.
C21_WaitingImpliesUsedUp ==
    BetweenHandlers => (waiting_for_server => list_used_up)

\* a market update has submitted a combination and returned with both flags
\* set
C21_Witness ==
    /\ BetweenHandlers
    /\ last = "send_order_list"
    /\ trace.submit
    /\ waiting_for_server
    /\ list_used_up

====
